---- MODULE Spec2Model ----
(***************************************************************************)
(* Tic-tac-toe: the Grid state machine (lib.rs), the minimax search and    *)
(* best_play, and the interactive driving loop (main.rs).                  *)
(***************************************************************************)
EXTENDS Integers, FiniteSets, Sequences, TLC

\* enum Player { X, O, Empty }
Player == {"X", "O", "Empty"}

\* indices of [[Player; 3]; 3]
Idx == 0..2

\* every 3x3 array of cells, matrix[row][column]
Matrices == [Idx -> [Idx -> Player]]

\* Option<T>: None, or Some(v) as a one-element sequence <<v>>
None == <<>>
Some(v) == <<v>>
unwrap(o) == o[1]

\* Grid::count_number_of_turns: the loop over rows and squares, in order
RECURSIVE count_loop(_, _, _)
count_loop(matrix, i, number_of_turn) ==
    IF i = 9 THEN number_of_turn
    ELSE LET square == matrix[i \div 3][i % 3]
         IN  count_loop(matrix, i + 1,
                        CASE square = "Empty" -> number_of_turn
                          [] square = "O" -> number_of_turn + 1
                          [] square = "X" -> number_of_turn + 1)

\* count_number_of_turns without the Player::O arm
count_only_X(matrix) == Cardinality({c \in Idx \X Idx : matrix[c[1]][c[2]] = "X"})

count_number_of_turns(matrix) == count_loop(matrix, 0, 0)

\* from with the parity test inverted
from_parity_inverted(matrix) ==
    LET number_of_turn == count_number_of_turns(matrix)
        player_turn == IF number_of_turn % 2 = 1 THEN "X" ELSE "O"
    IN  [matrix |-> matrix, number_of_turns |-> number_of_turn, player_turn |-> player_turn]

\* Grid::from
from(matrix) ==
    LET number_of_turn == count_number_of_turns(matrix)
        player_turn == IF number_of_turn % 2 = 0 THEN "X" ELSE "O"
    IN  [matrix |-> matrix, number_of_turns |-> number_of_turn, player_turn |-> player_turn]

\* Grid::new
new == from([y \in Idx |-> [x \in Idx |-> "Empty"]])

\* Result<(), Player>
Ok == <<"Ok">>
Err(p) == <<"Err", p>>

\* set without the flip of player_turn
set_no_flip(g, x, y) ==
    IF g.matrix[y][x] # "Empty"
    THEN [grid |-> g, result |-> Err(g.matrix[y][x])]
    ELSE [grid |-> [matrix |-> [g.matrix EXCEPT ![y][x] = g.player_turn],
                    number_of_turns |-> g.number_of_turns + 1,
                    player_turn |-> g.player_turn],
          result |-> Ok]

\* set that counts the turn before it tests the cell
set_counts_first(g, x, y) ==
    IF g.matrix[y][x] # "Empty"
    THEN [grid |-> [g EXCEPT !.number_of_turns = g.number_of_turns + 1],
          result |-> Err(g.matrix[y][x])]
    ELSE [grid |-> [matrix |-> [g.matrix EXCEPT ![y][x] = g.player_turn],
                    number_of_turns |-> g.number_of_turns + 1,
                    player_turn |-> IF g.player_turn = "X" THEN "O" ELSE "X"],
          result |-> Ok]

\* Grid::set: the grid after the call and the Result the call returns
set(g, x, y) ==
    IF g.matrix[y][x] # "Empty"
    THEN [grid |-> g, result |-> Err(g.matrix[y][x])]
    ELSE [grid |-> [matrix |-> [g.matrix EXCEPT ![y][x] = g.player_turn],
                    number_of_turns |-> g.number_of_turns + 1,
                    player_turn |-> IF g.player_turn = "X" THEN "O" ELSE "X"],
          result |-> Ok]

\* is_full that also asks for a board without a winner; the rows are tested
\* as check_row tests them
is_full_without_winner(g) ==
    /\ g.number_of_turns = 9
    /\ \A row \in Idx :
           \/ g.matrix[row][0] = "Empty"
           \/ g.matrix[row][0] # g.matrix[row][1]
           \/ g.matrix[row][1] # g.matrix[row][2]

\* Grid::is_full
is_full(g) == g.number_of_turns = 9

\* check_col without the test for Empty
check_col_no_empty_test(g, col) ==
    g.matrix[0][col] = g.matrix[1][col] /\ g.matrix[1][col] = g.matrix[2][col]

\* Grid::check_col
check_col(g, col) ==
    IF g.matrix[0][col] = "Empty" THEN FALSE
    ELSE g.matrix[0][col] = g.matrix[1][col] /\ g.matrix[1][col] = g.matrix[2][col]

\* check_row without the test for Empty
check_row_no_empty_test(g, row) ==
    g.matrix[row][0] = g.matrix[row][1] /\ g.matrix[row][1] = g.matrix[row][2]

\* Grid::check_row
check_row(g, row) ==
    IF g.matrix[row][0] = "Empty" THEN FALSE
    ELSE g.matrix[row][0] = g.matrix[row][1] /\ g.matrix[row][1] = g.matrix[row][2]

\* Grid::check_diag
check_diag(g) ==
    IF g.matrix[0][0] = g.matrix[1][1] /\ g.matrix[1][1] = g.matrix[2][2]
       /\ g.matrix[0][0] # "Empty"
    THEN TRUE
    ELSE IF g.matrix[2][0] = g.matrix[1][1] /\ g.matrix[1][1] = g.matrix[0][2]
            /\ g.matrix[0][2] # "Empty"
    THEN TRUE
    ELSE FALSE

\* Grid::has_winner
has_winner(g) ==
    IF check_diag(g) THEN TRUE
    ELSE \E i \in Idx : check_col(g, i) \/ check_row(g, i)

\* update_score with the two sides exchanged: X keeps the greater, O the lesser
update_score_sides_exchanged(g, score, v2) ==
    IF score = None THEN Some(v2)
    ELSE LET v == unwrap(score)
             s1 == IF g.player_turn = "O" /\ v > v2 THEN Some(v2) ELSE score
         IN  IF g.player_turn = "X" /\ v < v2 THEN Some(v2) ELSE s1

\* update_score without the arm of O: with O to move the first score stays
update_score_X_only(g, score, v2) ==
    IF score = None THEN Some(v2)
    ELSE IF g.player_turn = "X" /\ unwrap(score) > v2 THEN Some(v2) ELSE score

\* minimax::update_score: the closure's effect on score
update_score(g, score, v2) ==
    IF score = None THEN Some(v2)
    ELSE LET v == unwrap(score)
             s1 == IF g.player_turn = "X" /\ v > v2 THEN Some(v2) ELSE score
         IN  IF g.player_turn = "O" /\ v < v2 THEN Some(v2) ELSE s1

RECURSIVE minimax(_)

\* minimax: the score of the position after each Empty square is played
\* (ng = grid.clone(); ng.set(x, y); minimax(ng)), by square in row-major
\* order (i = 3 * y + x); None for an occupied square
minimax_children(g) ==
    [i \in 0..8 |->
        LET y == i \div 3
            x == i % 3
        IN  IF g.matrix[y][x] = "Empty" THEN Some(minimax(set(g, x, y).grid)) ELSE None]

\* minimax: the loop over the squares, feeding update_score in row-major order
RECURSIVE minimax_loop(_, _, _, _)
minimax_loop(g, scores, i, score) ==
    IF i \notin DOMAIN scores THEN score
    ELSE IF scores[i] = None THEN minimax_loop(g, scores, i + 1, score)
    ELSE minimax_loop(g, scores, i + 1, update_score(g, score, unwrap(scores[i])))

\* minimax
minimax(g) ==
    IF has_winner(g)
    THEN IF g.player_turn = "X" THEN 10 - g.number_of_turns ELSE g.number_of_turns - 10
    ELSE IF is_full(g) THEN 0
    ELSE LET score == minimax_loop(g, minimax_children(g), 0, None)
         IN  IF score = None THEN 0 ELSE unwrap(score)

\* update_best_score that replaces on a tie too (best_score <= score)
update_best_score_on_tie(best, score, x, y) ==
    IF best.best_play # None
    THEN IF unwrap(best.best_play) <= score
         THEN [best_play |-> Some(score), best_x |-> Some(x), best_y |-> Some(y)]
         ELSE best
    ELSE [best_play |-> Some(score), best_x |-> Some(x), best_y |-> Some(y)]

\* update_best_score that keeps the least score (best_score > score)
update_best_score_least(best, score, x, y) ==
    IF best.best_play # None
    THEN IF unwrap(best.best_play) > score
         THEN [best_play |-> Some(score), best_x |-> Some(x), best_y |-> Some(y)]
         ELSE best
    ELSE [best_play |-> Some(score), best_x |-> Some(x), best_y |-> Some(y)]

\* update_best_score whose Some arm never replaces: the first score stays
update_best_score_never_replaces(best, score, x, y) ==
    IF best.best_play # None
    THEN best
    ELSE [best_play |-> Some(score), best_x |-> Some(x), best_y |-> Some(y)]

\* best_play::update_best_score: the closure's effect on (best_play, best_x, best_y)
update_best_score(best, score, x, y) ==
    IF best.best_play # None
    THEN IF unwrap(best.best_play) < score
         THEN [best_play |-> Some(score), best_x |-> Some(x), best_y |-> Some(y)]
         ELSE best
    ELSE [best_play |-> Some(score), best_x |-> Some(x), best_y |-> Some(y)]

\* Grid::best_play: the score of each square on which a clone's set succeeds
\* (g = self.clone(); g.set(x, y); minimax(g)), by square in row-major order;
\* None for a square on which set fails
best_play_children(g) ==
    [i \in 0..8 |->
        LET y == i \div 3
            x == i % 3
            r == set(g, x, y)
        IN  IF r.result = Ok THEN Some(minimax(r.grid)) ELSE None]

\* Grid::best_play: the loop over the squares, feeding update_best_score
RECURSIVE best_play_loop(_, _, _)
best_play_loop(scores, i, best) ==
    IF i \notin DOMAIN scores THEN best
    ELSE IF scores[i] = None THEN best_play_loop(scores, i + 1, best)
    ELSE best_play_loop(scores, i + 1,
                        update_best_score(best, unwrap(scores[i]), i % 3, i \div 3))

\* best_play that returns (row, column) for (column, row)
best_play_row_first(g) ==
    LET best == best_play_loop(best_play_children(g), 0,
                               [best_play |-> None, best_x |-> None, best_y |-> None])
    IN  IF best.best_play # None
        THEN Some(<<unwrap(best.best_y), unwrap(best.best_x)>>)
        ELSE None

\* Grid::best_play: Some(<<x, y>>) or None
best_play(g) ==
    LET best == best_play_loop(best_play_children(g), 0,
                               [best_play |-> None, best_x |-> None, best_y |-> None])
    IN  IF best.best_play # None
        THEN Some(<<unwrap(best.best_x), unwrap(best.best_y)>>)
        ELSE None

----------------------------------------------------------------------------
\* grid: the caller's Grid.  ret: the call whose result the caller holds, or
\* Idle when the caller is between calls.  pc: where main_loop stands, or
\* "caller" when the Grid is driven call by call.  announced: what end_game
\* has printed, None before it runs.
VARIABLES grid, ret, pc, announced

vars == <<grid, ret, pc, announced>>

\* main_loop is not running: the Grid is driven call by call
NoLoop == pc = "caller" /\ announced = None

Idle == [op |-> "idle"]

\* the number of Empty cells of a 3x3 array
Empties(matrix) == Cardinality({c \in Idx \X Idx : matrix[c[1]][c[2]] = "Empty"})

\* the largest number of Empty cells of the arrays the search is run on
MaxEmpty == 5

\* let grid = Grid::new();  (main.rs:5)
InitNew == grid = new /\ ret = Idle /\ NoLoop

\* let grid = Grid::from(cells);  for any 3x3 array of cells
InitFrom == \E cells \in Matrices : grid = from(cells) /\ ret = Idle /\ NoLoop

\* Grid::from(cells) on the arrays the search is run on
InitFromBounded ==
    \E cells \in Matrices :
        Empties(cells) <= MaxEmpty /\ grid = from(cells) /\ ret = Idle /\ NoLoop

\* grid.set(x, y)
Set(x, y) ==
    /\ ret = Idle
    /\ grid' = set(grid, x, y).grid
    /\ ret' = [op |-> "set", x |-> x, y |-> y, val |-> set(grid, x, y).result]
    /\ UNCHANGED <<pc, announced>>

\* grid.set(x, y) in a game: on an Empty cell while the game is not over
Play(x, y) ==
    /\ ~is_full(grid)
    /\ ~has_winner(grid)
    /\ grid.matrix[y][x] = "Empty"
    /\ Set(x, y)

\* grid.is_full()
IsFull ==
    /\ ret = Idle
    /\ ret' = [op |-> "is_full", val |-> is_full(grid)]
    /\ UNCHANGED <<grid, pc, announced>>

\* grid.has_winner()
HasWinner ==
    /\ ret = Idle
    /\ ret' = [op |-> "has_winner", val |-> has_winner(grid)]
    /\ UNCHANGED <<grid, pc, announced>>

\* best_play that sets the returned cell on self, not only on clones
BestPlay_sets_self ==
    /\ ret = Idle
    /\ ret' = [op |-> "best_play", val |-> best_play(grid)]
    /\ grid' = IF best_play(grid) = None THEN grid
               ELSE set(grid, unwrap(best_play(grid))[1], unwrap(best_play(grid))[2]).grid
    /\ UNCHANGED <<pc, announced>>

\* grid.best_play()
BestPlay ==
    /\ ret = Idle
    /\ ret' = [op |-> "best_play", val |-> best_play(grid)]
    /\ UNCHANGED <<grid, pc, announced>>

\* minimax(grid.clone())
Minimax ==
    /\ ret = Idle
    /\ ret' = [op |-> "minimax", val |-> minimax(grid)]
    /\ UNCHANGED <<grid, pc, announced>>

\* the caller is done with the returned value
Return ==
    /\ ret # Idle
    /\ ret' = Idle
    /\ UNCHANGED <<grid, pc, announced>>

\* The Grid interface on every grid: construction, set and the cheap queries
Init == InitNew \/ InitFrom

Next ==
    \/ \E x \in Idx, y \in Idx : Set(x, y)
    \/ IsFull
    \/ HasWinner
    \/ Return

Spec == Init /\ [][Next]_vars

\* The search on every grid with at most MaxEmpty Empty cells
InitSearch == InitFromBounded

NextSearch ==
    \/ \E x \in Idx, y \in Idx : Set(x, y)
    \/ BestPlay
    \/ Minimax
    \/ Return

SpecSearch == InitSearch /\ [][NextSearch]_vars

\* The four queries and set on every grid with at most MaxEmpty Empty cells
InitQueries == InitFromBounded

NextQueries ==
    \/ \E x \in Idx, y \in Idx : Set(x, y)
    \/ IsFull
    \/ HasWinner
    \/ BestPlay
    \/ Minimax
    \/ Return

SpecQueries == InitQueries /\ [][NextQueries]_vars

\* The search on every position of a game played from the empty board
InitPlay == InitNew

NextPlay ==
    \/ \E x \in Idx, y \in Idx : Play(x, y)
    \/ BestPlay
    \/ Minimax
    \/ Return

SpecPlay == InitPlay /\ [][NextPlay]_vars
----------------------------------------------------------------------------
\* main_loop and end_game (main.rs)

\* what end_game prints: "Player {winner} won!" or "Draw :("
Won(p) == <<"Won", p>>
Draw == <<"Draw">>

\* end_game that names player_turn as the winner
end_game_names_player_turn(g) ==
    LET winner == g.player_turn
    IN  IF ~is_full(g) THEN Won(winner) ELSE Draw

\* end_game: the line it prints
end_game(g) ==
    LET winner == IF "X" = g.player_turn THEN "O" ELSE "X"
    IN  IF ~is_full(g) THEN Won(winner) ELSE Draw

\* main: let grid = Grid::new(); main_loop(grid);
InitMain == grid = new /\ ret = Idle /\ pc = "while" /\ announced = None

\* the test of the while loop that ignores has_winner
LoopTest_ignores_winner ==
    /\ pc = "while"
    /\ pc' = IF ~is_full(grid)
             THEN IF grid.player_turn = "X" THEN "human" ELSE "engine"
             ELSE "end_game"
    /\ UNCHANGED <<grid, ret, announced>>

\* main_loop: the test of the while loop and of whose turn it is
LoopTest ==
    /\ pc = "while"
    /\ pc' = IF ~is_full(grid) /\ ~has_winner(grid)
             THEN IF grid.player_turn = "X" THEN "human" ELSE "engine"
             ELSE "end_game"
    /\ UNCHANGED <<grid, ret, announced>>

\* the inner loop with the arms of the match exchanged: Err breaks, Ok asks again
HumanTurn_arms_exchanged(x, y) ==
    /\ pc = "human"
    /\ grid' = set(grid, x, y).grid
    /\ ret' = [op |-> "set", x |-> x, y |-> y, val |-> set(grid, x, y).result]
    /\ pc' = IF set(grid, x, y).result = Ok THEN "human" ELSE "while"
    /\ UNCHANGED announced

\* main_loop: one round of the inner loop: player_turn() yields (x, y), both in
\* 0..2, and grid.set(x, y) either breaks out of the loop or is rejected
HumanTurn(x, y) ==
    /\ pc = "human"
    /\ grid' = set(grid, x, y).grid
    /\ ret' = [op |-> "set", x |-> x, y |-> y, val |-> set(grid, x, y).result]
    /\ pc' = IF set(grid, x, y).result = Ok THEN "while" ELSE "human"
    /\ UNCHANGED announced

\* main_loop: the engine's turn: set on the cell best_play returns, or break
EngineTurn ==
    /\ pc = "engine"
    /\ \E coo \in {best_play(grid)} :
           IF coo # None
           THEN /\ grid' = set(grid, unwrap(coo)[1], unwrap(coo)[2]).grid
                /\ ret' = [op |-> "set", x |-> unwrap(coo)[1], y |-> unwrap(coo)[2],
                           val |-> set(grid, unwrap(coo)[1], unwrap(coo)[2]).result]
                /\ pc' = "while"
           ELSE /\ pc' = "end_game"
                /\ UNCHANGED <<grid, ret>>
    /\ UNCHANGED announced

\* end_game(grid)
EndGame ==
    /\ pc = "end_game"
    /\ announced' = end_game(grid)
    /\ pc' = "done"
    /\ UNCHANGED <<grid, ret>>

NextMain ==
    \/ LoopTest
    \/ \E x \in Idx, y \in Idx : HumanTurn(x, y)
    \/ EngineTurn
    \/ EndGame

SpecMain == InitMain /\ [][NextMain]_vars

\* the human names an Empty cell
HumanAccepted == \E x \in Idx, y \in Idx : HumanTurn(x, y) /\ grid.matrix[y][x] = "Empty"

\* the engine's arm of main_loop is left by a set on some Empty cell.  With
\* pc = "engine" the board has an Empty cell and EngineTurn is enabled
\* (best_play is total and returns an Empty cell), and a step of NextMain
\* is a step of EngineMoves iff it is a step of EngineTurn, so weak fairness
\* on EngineMoves is weak fairness on EngineTurn; ENABLED EngineMoves does not
\* run the search.
EngineMoves ==
    /\ pc = "engine"
    /\ pc' = "while"
    /\ \E x \in Idx, y \in Idx :
           /\ grid.matrix[y][x] = "Empty"
           /\ grid' = set(grid, x, y).grid
           /\ ret' = [op |-> "set", x |-> x, y |-> y, val |-> set(grid, x, y).result]
    /\ UNCHANGED announced

\* main_loop runs on: the loop test, the engine's turn and end_game are taken
\* when they can be, and the human, asked for a cell, names an Empty one in
\* the end
SpecMainFair ==
    /\ SpecMain
    /\ WF_vars(LoopTest)
    /\ WF_vars(EngineMoves)
    /\ WF_vars(EndGame)
    /\ WF_vars(HumanAccepted)

----------------------------------------------------------------------------
\* The properties of Grid (new, from, set, is_full, has_winner), under Spec

\* the cells of the board, as <<row, column>>
Cells == Idx \X Idx

\* the 8 lines of the board: 3 rows, 3 columns, the diagonal, the anti-diagonal
Lines ==
    {{<<r, c>> : c \in Idx} : r \in Idx}
        \cup {{<<r, c>> : r \in Idx} : c \in Idx}
        \cup {{<<i, i>> : i \in Idx}, {<<i, 2 - i>> : i \in Idx}}

\* some line of the board holds three marks of p
HasLine(matrix, p) == \E l \in Lines : \A c \in l : matrix[c[1]][c[2]] = p

\* C1: set(x, y) on an Empty cell of a grid with no winner returns Ok, writes
\* the mark of the player to move into matrix[y][x] and into no other cell,
\* adds exactly 1 to number_of_turns and flips player_turn.
C1_SetOnEmptyCell ==
    [][\A x \in Idx, y \in Idx :
          (Set(x, y) /\ ~has_winner(grid) /\ grid.matrix[y][x] = "Empty") =>
              /\ ret'.val = Ok
              /\ grid'.matrix[y][x] = grid.player_turn
              /\ \A c \in Cells \ {<<y, x>>} :
                     grid'.matrix[c[1]][c[2]] = grid.matrix[c[1]][c[2]]
              /\ grid'.number_of_turns = grid.number_of_turns + 1
              /\ grid.player_turn = "X" => grid'.player_turn = "O"
              /\ grid.player_turn = "O" => grid'.player_turn = "X"
              /\ grid'.player_turn # grid.player_turn]_vars

\* a set by O on an Empty cell of a grid with no winner has returned Ok
C1_Witness ==
    /\ ret.op = "set"
    /\ ret.val = Ok
    /\ grid.matrix[ret.y][ret.x] = "O"
    /\ grid.player_turn = "X"
    /\ ~has_winner(grid)

\* C2: set(x, y) on a cell that is not Empty returns the error that carries
\* the mark in that cell, and leaves the whole grid as it was.
C2_SetOnOccupiedCell ==
    [][\A x \in Idx, y \in Idx :
          (Set(x, y) /\ grid.matrix[y][x] # "Empty") =>
              /\ ret'.val = Err(grid.matrix[y][x])
              /\ grid'.matrix = grid.matrix
              /\ grid'.number_of_turns = grid.number_of_turns
              /\ grid'.player_turn = grid.player_turn]_vars

\* a set on a cell that holds X, with O to move, has returned Err(X)
C2_Witness ==
    /\ ret.op = "set"
    /\ ret.val = Err("X")
    /\ grid.matrix[ret.y][ret.x] = "X"
    /\ grid.player_turn = "O"

\* C3: number_of_turns is the number of cells that are not Empty, after new
\* or from and any sequence of sets.
C3_TurnsCountMarks == grid.number_of_turns = 9 - Empties(grid.matrix)

\* a failed set, on a cell holding O, of a board built by from with 4 marks
C3_Witness ==
    /\ ret.op = "set"
    /\ ret.val = Err("O")
    /\ HasLine(grid.matrix, "O")
    /\ grid.number_of_turns = 4

\* C4: player_turn is X exactly when number_of_turns is even and O exactly when
\* it is odd; new() is the all-Empty board with 0 turns and X to move.
C4_TurnParity ==
    /\ grid.player_turn = "X" <=> grid.number_of_turns % 2 = 0
    /\ grid.player_turn = "O" <=> grid.number_of_turns % 2 = 1
    /\ \A c \in Cells : new.matrix[c[1]][c[2]] = "Empty"
    /\ new.number_of_turns = 0
    /\ new.player_turn = "X"

\* a successful set has left O to move on an odd number of turns
C4_Witness ==
    /\ ret.op = "set"
    /\ ret.val = Ok
    /\ grid.player_turn = "O"
    /\ grid.number_of_turns = 7

\* C5: has_winner() is true exactly when one of the 8 lines holds three X or
\* three O; a line of three Empty cells does not count.
C5_HasWinnerIffLine ==
    ret.op = "has_winner" =>
        (ret.val <=> (HasLine(grid.matrix, "X") \/ HasLine(grid.matrix, "O")))

\* has_winner() has answered true on the board whose only marks are the
\* anti-diagonal of O (every other line holds an Empty cell)
C5_Witness ==
    /\ ret.op = "has_winner"
    /\ ret.val
    /\ \A i \in Idx : grid.matrix[i][2 - i] = "O"
    /\ \A c \in Cells : c[1] + c[2] # 2 => grid.matrix[c[1]][c[2]] = "Empty"
----------------------------------------------------------------------------
\* The game itself, stated on the board alone: who can force a win

Other(p) == IF p = "X" THEN "O" ELSE "X"

EmptyCells(matrix) == {c \in Cells : matrix[c[1]][c[2]] = "Empty"}

\* the board with the mark p in the cell c = <<row, column>>
Place(matrix, c, p) == [matrix EXCEPT ![c[1]][c[2]] = p]

\* the position of a cell in row-major order
RowMajor(c) == 3 * c[1] + c[2]

\* p wins the game from this board with mover to move, whatever the other
\* side plays (a board that already holds a line of p is won by p)
RECURSIVE Forces(_, _, _)
Forces(matrix, mover, p) ==
    IF HasLine(matrix, p) THEN TRUE
    ELSE IF HasLine(matrix, Other(p)) \/ EmptyCells(matrix) = {} THEN FALSE
    ELSE IF mover = p
    THEN \E c \in EmptyCells(matrix) : Forces(Place(matrix, c, mover), Other(mover), p)
    ELSE \A c \in EmptyCells(matrix) : Forces(Place(matrix, c, mover), Other(mover), p)

\* the Empty cells on which a mark of p completes a line of p
WinningCells(matrix, p) == {c \in EmptyCells(matrix) : HasLine(Place(matrix, c, p), p)}

\* a board written as its three rows, top to bottom
Board(r0, r1, r2) == [y \in Idx |-> [x \in Idx |-> <<r0, r1, r2>>[y + 1][x + 1]]]

----------------------------------------------------------------------------
\* The properties of the search on the positions of a game, under SpecPlay

\* C6: on every position of a game that is not over, whichever side is to
\* move, best_play() returns a move that is optimal for the side to move: if
\* that side can force a win it still can after the move, and if it can avoid
\* defeat it still can after the move.
C6_BestPlayOptimalForSideToMove ==
    (ret.op = "best_play" /\ ~has_winner(grid) /\ ~is_full(grid)) =>
        /\ ret.val # None
        /\ LET p == grid.player_turn
               m == unwrap(ret.val)
               after == Place(grid.matrix, <<m[2], m[1]>>, p)
           IN  /\ Forces(grid.matrix, p, p) => Forces(after, Other(p), p)
               /\ ~Forces(grid.matrix, p, Other(p)) => ~Forces(after, Other(p), Other(p))

\* C7 as claimed: the score is positive exactly when X wins under optimal
\* play (or has won), negative exactly when O does, 0 exactly on a draw.
C7_PositiveIffXWins ==
    ret.op = "minimax" =>
        /\ ret.val > 0 <=> Forces(grid.matrix, grid.player_turn, "X")
        /\ ret.val < 0 <=> Forces(grid.matrix, grid.player_turn, "O")
        /\ ret.val = 0 <=> /\ ~Forces(grid.matrix, grid.player_turn, "X")
                           /\ ~Forces(grid.matrix, grid.player_turn, "O")

\* C7 as amended: the score is positive exactly when O wins under optimal
\* play by both sides (or has won), negative exactly when X wins (or has
\* won), and 0 exactly when the game is drawn.
C7_PositiveIffOWins ==
    ret.op = "minimax" =>
        /\ ret.val > 0 <=> Forces(grid.matrix, grid.player_turn, "O")
        /\ ret.val < 0 <=> Forces(grid.matrix, grid.player_turn, "X")
        /\ ret.val = 0 <=> /\ ~Forces(grid.matrix, grid.player_turn, "X")
                           /\ ~Forces(grid.matrix, grid.player_turn, "O")

\* minimax has scored a position that O wins by force but has not won yet,
\* with X to move
C7_Witness ==
    /\ ret.op = "minimax"
    /\ ret.val > 0
    /\ ~has_winner(grid)
    /\ grid.player_turn = "X"
    /\ Forces(grid.matrix, "X", "O")

\* the board of the test bot::immediate_win
ImmediateWinBoard ==
    Board(<<"Empty", "O", "Empty">>, <<"X", "O", "X">>, <<"Empty", "Empty", "X">>)

\* C10: on a position with no winner and O to move in which some Empty cell
\* completes a line of O, best_play() returns the first such cell in row-major
\* order; on the board of bot::immediate_win that is column 1, row 2.
C10_TakesImmediateWin ==
    ret.op = "best_play" =>
        /\ (/\ grid.player_turn = "O"
            /\ ~has_winner(grid)
            /\ WinningCells(grid.matrix, "O") # {}) =>
               \E c \in WinningCells(grid.matrix, "O") :
                   /\ ret.val = Some(<<c[2], c[1]>>)
                   /\ \A d \in WinningCells(grid.matrix, "O") : RowMajor(c) <= RowMajor(d)
        /\ grid.matrix = ImmediateWinBoard => ret.val = Some(<<1, 2>>)

\* best_play() has answered on the board of bot::immediate_win
C10_Witness ==
    /\ ret.op = "best_play"
    /\ grid.matrix = ImmediateWinBoard
    /\ grid.player_turn = "O"
    /\ WinningCells(grid.matrix, "O") = {<<2, 1>>}
    /\ ret.val = Some(<<1, 2>>)
----------------------------------------------------------------------------
\* The properties of best_play on every grid, under SpecSearch

\* the score minimax gives the grid once the cell c = <<row, column>> is set
ChildScore(g, c) == minimax(set(g, c[2], c[1]).grid)

\* C8: on a grid with an Empty cell, best_play() returns the Empty cell whose
\* resulting position has the greatest minimax score, and the first such cell
\* in row-major order when several share that score.
C8_GreatestScoreFirstOnTies ==
    (ret.op = "best_play" /\ EmptyCells(grid.matrix) # {}) =>
        LET score == [c \in EmptyCells(grid.matrix) |-> ChildScore(grid, c)]
        IN  /\ DOMAIN score = EmptyCells(grid.matrix)
            /\ \E c \in DOMAIN score :
                   /\ ret.val = Some(<<c[2], c[1]>>)
                   /\ \A d \in DOMAIN score :
                          /\ score[d] <= score[c]
                          /\ RowMajor(d) < RowMajor(c) => score[d] < score[c]

\* best_play() has returned a cell that is not the last of the cells sharing
\* the greatest score
C8_Witness ==
    /\ ret.op = "best_play"
    /\ ret.val # None
    /\ Cardinality(EmptyCells(grid.matrix)) = 3
    /\ \E d \in EmptyCells(grid.matrix) :
           /\ RowMajor(d) > RowMajor(<<unwrap(ret.val)[2], unwrap(ret.val)[1]>>)
           /\ ChildScore(grid, d) = ChildScore(grid, <<unwrap(ret.val)[2], unwrap(ret.val)[1]>>)

\* C9: best_play() returns None exactly when the board has no Empty cell, which
\* is when is_full() holds; the cell of a returned Some((column, row)) is Empty,
\* so that set(column, row) on the grid returns Ok.
C9_NoneIffFull ==
    ret.op = "best_play" =>
        /\ ret.val = None <=> EmptyCells(grid.matrix) = {}
        /\ ret.val = None <=> is_full(grid)
        /\ ret.val # None =>
               /\ unwrap(ret.val) \in Idx \X Idx
               /\ grid.matrix[unwrap(ret.val)[2]][unwrap(ret.val)[1]] = "Empty"
               /\ set(grid, unwrap(ret.val)[1], unwrap(ret.val)[2]).result = Ok

\* best_play() has returned None on a full board
C9_Witness ==
    /\ ret.op = "best_play"
    /\ ret.val = None
    /\ is_full(grid)
    /\ EmptyCells(grid.matrix) = {}
----------------------------------------------------------------------------
\* More properties of the search on the positions of a game, under SpecPlay

\* the board of the test bot::immediate_lose
ImmediateLoseBoard ==
    Board(<<"O", "Empty", "X">>, <<"Empty", "Empty", "X">>, <<"Empty", "Empty", "Empty">>)

\* C11: on a position with no winner and O to move in which no Empty cell
\* completes a line of O and exactly one Empty cell completes a line of X,
\* best_play() returns that cell; on the board of bot::immediate_lose that is
\* column 2, row 2.
C11_BlocksSingleThreat ==
    ret.op = "best_play" =>
        /\ (/\ grid.player_turn = "O"
            /\ ~has_winner(grid)
            /\ WinningCells(grid.matrix, "O") = {}
            /\ Cardinality(WinningCells(grid.matrix, "X")) = 1) =>
               \E c \in WinningCells(grid.matrix, "X") : ret.val = Some(<<c[2], c[1]>>)
        /\ grid.matrix = ImmediateLoseBoard => ret.val = Some(<<2, 2>>)

\* best_play() has answered on the board of bot::immediate_lose
C11_Witness ==
    /\ ret.op = "best_play"
    /\ grid.matrix = ImmediateLoseBoard
    /\ grid.player_turn = "O"
    /\ WinningCells(grid.matrix, "O") = {}
    /\ WinningCells(grid.matrix, "X") = {<<2, 2>>}
    /\ ret.val = Some(<<2, 2>>)

\* C12: on the empty board best_play() returns a move and minimax is 0: neither
\* side can force a win.
C12_EmptyBoardIsADraw ==
    grid = new =>
        /\ ret.op = "best_play" =>
               /\ ret.val # None
               /\ unwrap(ret.val) \in Idx \X Idx
        /\ ret.op = "minimax" =>
               /\ ret.val = 0
               /\ ~Forces(grid.matrix, "X", "X")
               /\ ~Forces(grid.matrix, "X", "O")

\* minimax has scored the empty board
C12_Witness ==
    /\ grid = new
    /\ EmptyCells(grid.matrix) = Cells
    /\ ret.op = "minimax"
    /\ ret.val = 0

\* the least and the greatest of a non-empty set of integers
Least(S) == CHOOSE v \in S : \A w \in S : v <= w
Greatest(S) == CHOOSE v \in S : \A w \in S : v >= w

\* C15: minimax is 10 - number_of_turns (X to move) or number_of_turns - 10
\* (O to move) on a board with a winner, full or not; else 0 on a full board;
\* else the least score of the positions one set away when X is to move and
\* the greatest when O is to move.
C15_MinimaxRecursion ==
    ret.op = "minimax" =>
        IF HasLine(grid.matrix, "X") \/ HasLine(grid.matrix, "O")
        THEN /\ grid.player_turn = "X" => ret.val = 10 - grid.number_of_turns
             /\ grid.player_turn = "O" => ret.val = grid.number_of_turns - 10
        ELSE IF EmptyCells(grid.matrix) = {}
        THEN ret.val = 0
        ELSE LET scores == {ChildScore(grid, c) : c \in EmptyCells(grid.matrix)}
             IN  /\ scores # {}
                 /\ grid.player_turn = "X" => ret.val = Least(scores)
                 /\ grid.player_turn = "O" => ret.val = Greatest(scores)

\* minimax has scored a position that is not over, with O to move, whose
\* successors do not all have the same score
C15_Witness ==
    /\ ret.op = "minimax"
    /\ ~has_winner(grid)
    /\ grid.player_turn = "O"
    /\ grid.number_of_turns = 5
    /\ Cardinality({ChildScore(grid, c) : c \in EmptyCells(grid.matrix)}) > 1
    /\ ret.val = Greatest({ChildScore(grid, c) : c \in EmptyCells(grid.matrix)})

\* C16: in a game in which no set follows a win, a board with a winner holds a
\* line of the player who is not to move and no line of the player to move.
C16_WinnerJustMoved ==
    has_winner(grid) =>
        /\ HasLine(grid.matrix, Other(grid.player_turn))
        /\ ~HasLine(grid.matrix, grid.player_turn)
        /\ \A l \in Lines :
               (\E p \in {"X", "O"} : \A c \in l : grid.matrix[c[1]][c[2]] = p) =>
                   \A c \in l : grid.matrix[c[1]][c[2]] = Other(grid.player_turn)

\* a set by O has completed a line of O
C16_Witness ==
    /\ ret.op = "set"
    /\ has_winner(grid)
    /\ grid.player_turn = "X"
    /\ grid.matrix[ret.y][ret.x] = "O"
    /\ HasLine(grid.matrix, "O")

----------------------------------------------------------------------------
\* More properties of Grid, under Spec

\* C13: is_full() is true exactly when number_of_turns is 9, which is exactly
\* when no cell is Empty, on boards with a winner and on boards without one.
C13_FullIffNineTurns ==
    /\ ret.op = "is_full" =>
           /\ ret.val <=> grid.number_of_turns = 9
           /\ ret.val <=> EmptyCells(grid.matrix) = {}
    /\ grid.number_of_turns = 9 <=> EmptyCells(grid.matrix) = {}

\* is_full() has answered true on a full board that has a winner
C13_Witness ==
    /\ ret.op = "is_full"
    /\ ret.val
    /\ EmptyCells(grid.matrix) = {}
    /\ HasLine(grid.matrix, "X")
----------------------------------------------------------------------------
\* The queries as seen by the caller, under SpecQueries

\* C14: has_winner(), is_full(), best_play() and minimax leave the cells,
\* number_of_turns and player_turn of the caller's grid as they were, and the
\* same query on the grid as it is after the call returns the value just
\* returned.
C14_QueriesLeaveTheGrid ==
    [][(ret = Idle /\ ret'.op \in {"has_winner", "is_full", "best_play", "minimax"}) =>
          /\ grid'.matrix = grid.matrix
          /\ grid'.number_of_turns = grid.number_of_turns
          /\ grid'.player_turn = grid.player_turn
          /\ ret'.op = "has_winner" => ret'.val = has_winner(grid')
          /\ ret'.op = "is_full" => ret'.val = is_full(grid')
          /\ ret'.op = "best_play" => ret'.val = best_play(grid')
          /\ ret'.op = "minimax" => ret'.val = minimax(grid')]_vars

\* best_play() has returned a move on a board of 6 marks, and the cell it
\* names is still Empty
C14_Witness ==
    /\ ret.op = "best_play"
    /\ ret.val # None
    /\ grid.number_of_turns = 6
    /\ grid.matrix[unwrap(ret.val)[2]][unwrap(ret.val)[1]] = "Empty"

----------------------------------------------------------------------------
\* The properties of main_loop and end_game, under SpecMain and SpecMainFair

\* a call of set by main_loop is about to be issued
SetIsIssued == pc \in {"human", "engine"}

\* C17: in main_loop every call of set, by the human or by the engine, is
\* issued in a state where has_winner() and is_full() are both false; once the
\* board has a winner or is full no set is issued any more and the grid stays
\* as it is.
C17_SetOnlyWhileInProgress ==
    /\ [](SetIsIssued => ~has_winner(grid) /\ ~is_full(grid))
    /\ [][has_winner(grid) \/ is_full(grid) => ~SetIsIssued' /\ grid' = grid]_vars

\* main_loop has ended after an accepted set that completed a line
C17_Witness ==
    /\ pc = "done"
    /\ ret # Idle
    /\ ret.val = Ok
    /\ has_winner(grid)

\* C18: in a game driven by main_loop from the empty board, whatever legal
\* moves X plays, no state has a line of three X, and the game ends with a
\* line of three O or with a full board without a line.
C18_EngineNeverLoses ==
    /\ ~HasLine(grid.matrix, "X")
    /\ pc = "done" => \/ HasLine(grid.matrix, "O")
                      \/ is_full(grid) /\ ~has_winner(grid)

\* main_loop has ended on a full board without a line
C18_Witness ==
    /\ pc = "done"
    /\ is_full(grid)
    /\ ~HasLine(grid.matrix, "X")
    /\ ~HasLine(grid.matrix, "O")

\* C19: when end_game has run, a draw is announced iff the board is full
\* without a winner; otherwise the winner announced is the opposite of
\* player_turn and is the mark of the completed line; no full board with a
\* winner is announced as a draw.
C19_AnnouncementMatchesBoard ==
    pc = "done" =>
        /\ announced = Draw <=> is_full(grid) /\ ~has_winner(grid)
        /\ announced # Draw =>
               /\ announced = Won(Other(grid.player_turn))
               /\ HasLine(grid.matrix, Other(grid.player_turn))
               /\ ~HasLine(grid.matrix, grid.player_turn)
        /\ ~(is_full(grid) /\ has_winner(grid) /\ announced = Draw)

\* end_game has announced O as the winner of a board with a line of three O
C19_Witness ==
    /\ pc = "done"
    /\ announced = Won("O")
    /\ HasLine(grid.matrix, "O")

\* the mark of the move number n (from 0) of a game: X starts, then they alternate
MoverOf(n) == IF n % 2 = 0 THEN "X" ELSE "O"

\* C20: a game driven by main_loop from the empty board ends: end_game runs on
\* a board with a winner or full, given that the human names an Empty cell in
\* the end; at most 9 calls of set succeed; the moves alternate between X (the
\* human) and O (the engine), X first.
C20_GameTerminates ==
    /\ <>(pc = "done" /\ (has_winner(grid) \/ is_full(grid)))
    /\ [](grid.number_of_turns <= 9)
    /\ [][grid' # grid =>
             /\ grid'.number_of_turns = grid.number_of_turns + 1
             /\ pc = IF MoverOf(grid.number_of_turns) = "X" THEN "human" ELSE "engine"
             /\ \E c \in EmptyCells(grid.matrix) :
                    grid'.matrix = Place(grid.matrix, c, MoverOf(grid.number_of_turns))]_vars

\* end_game has run after a game of nine accepted moves
C20_Witness ==
    /\ pc = "done"
    /\ grid.number_of_turns = 9
    /\ announced # None


====
